---- MODULE Spec2Model ----
(***************************************************************************)
(* Model of waterfall_ax.WaterfallChart (src/waterfall_ax/waterfall_ax.py). *)
(*                                                                         *)
(* Numbers are pandas float64 cells.  A finite cell holding k stands for   *)
(* the real number k / Denom, so differences are exact and int() (which    *)
(* truncates toward zero) is not the identity.  A cell is either NaN or    *)
(* finite.  A Series is an index (labels) with a list of cells; a          *)
(* DataFrame is an index with an ordered list of named columns, so that a  *)
(* duplicated column name is representable.                                *)
(***************************************************************************)
EXTENDS Integers, Sequences, FiniteSets, TLC

\* ------------------------------------------------------------------ bounds

\* Longest step_values list the driver constructs a chart with.
MaxLen == 2

\* Resolution of the numeric grid: a finite cell k is the number k / Denom.
Denom == 2

\* Cumulative step values the driver draws from, in units of 1 / Denom.
StepValueSet == {-61, 6241}

\* Pool the driver takes explicit step names from (a prefix of it).
NamePool == <<"A", "B", "C", "D", "E">>

MetricNames == {"", "Sales", "base", "delta"}

LastStepLabels == {"", "Total"}

\* ------------------------------------------------------- python helpers

NaN == [nan |-> TRUE, v |-> 0]

Num(k) == [nan |-> FALSE, v |-> k]

Cells(list) == [i \in 1..Len(list) |-> Num(list[i])]

\* a[start:stop] on a list of length Len(a), both bounds already
\* non-negative, 0-based, stop exclusive.
Slice(a, start, stop) ==
    [i \in 1..(IF stop > start THEN stop - start ELSE 0) |-> a[start + i]]

\* The 0-based positions start, start+step, ... below stop.
SliceIndices(start, stop, step) ==
    {p \in start..(stop - 1) : (p - start) % step = 0}

Digit(d) ==
    CASE d = 0 -> "0" [] d = 1 -> "1" [] d = 2 -> "2" [] d = 3 -> "3"
      [] d = 4 -> "4" [] d = 5 -> "5" [] d = 6 -> "6" [] d = 7 -> "7"
      [] d = 8 -> "8" [] d = 9 -> "9"

RECURSIVE DecStr(_)
\* str(n) for n >= 0.
DecStr(n) == IF n < 10 THEN Digit(n) ELSE DecStr(n \div 10) \o Digit(n % 10)

\* str(n) for any integer.
IntStr(n) == IF n < 0 THEN "-" \o DecStr(-n) ELSE DecStr(n)

\* int(x) for a finite float x = k / Denom: truncation toward zero.
PyInt(k) == IF k >= 0 THEN k \div Denom ELSE -((-k) \div Denom)

Pad3(n) ==
    IF n < 10 THEN "00" \o DecStr(n)
    ELSE IF n < 100 THEN "0" \o DecStr(n) ELSE DecStr(n)

RECURSIVE Grouped(_)
\* The digits of n >= 0 in groups of three separated by commas.
Grouped(n) ==
    IF n < 1000 THEN DecStr(n)
    ELSE Grouped(n \div 1000) \o "," \o Pad3(n % 1000)

\* '{:,}'.format(n)
FormatThousands(n) == IF n < 0 THEN "-" \o Grouped(-n) ELSE Grouped(n)

\* -------------------------------------------------------- pandas helpers

Series(index, values) == [index |-> index, values |-> values]

\* pd.Series(list): default RangeIndex 0..n-1.
SeriesOfList(list) ==
    Series([i \in 1..Len(list) |-> i - 1], Cells(list))

CellSub(a, b) == IF a.nan \/ b.nan THEN NaN ELSE Num(a.v - b.v)

\* Series.diff(): the first element has no predecessor and is NaN.
Diff(s) ==
    Series(s.index,
           [i \in 1..Len(s.values) |->
               IF i = 1 THEN NaN ELSE CellSub(s.values[i], s.values[i - 1])])

\* Series.fillna(other) for another Series on the same index.
FillnaSeries(s, other) ==
    Series(s.index,
           [i \in 1..Len(s.values) |->
               IF s.values[i].nan THEN other.values[i] ELSE s.values[i]])

\* Series.fillna(scalar)
FillnaScalar(s, k) ==
    Series(s.index,
           [i \in 1..Len(s.values) |->
               IF s.values[i].nan THEN Num(k) ELSE s.values[i]])

\* Series.shift(periods): values move down, the index stays, NaN fills in.
Shift(s, periods) ==
    Series(s.index,
           [i \in 1..Len(s.values) |->
               IF i <= periods THEN NaN ELSE s.values[i - periods]])

\* Series.repeat(r): every (label, value) pair r times in a row.
Repeat(s, r) ==
    Series([i \in 1..(r * Len(s.values)) |-> s.index[((i - 1) \div r) + 1]],
           [i \in 1..(r * Len(s.values)) |-> s.values[((i - 1) \div r) + 1]])

\* s[start:stop:step] = cell, positional, 0-based.
SetSlice(s, start, stop, step, cell) ==
    Series(s.index,
           [i \in 1..Len(s.values) |->
               IF (i - 1) \in SliceIndices(start, stop, step)
               THEN cell ELSE s.values[i]])

\* s[start:stop], positional, 0-based.
SeriesSlice(s, start, stop) ==
    Series(Slice(s.index, start, stop), Slice(s.values, start, stop))

\* pd.DataFrame(rows, columns=..., index=...).transpose(): the row labels
\* become the column names, the column labels become the index.
TransposedFrame(rows, columns, index) ==
    [index   |-> columns,
     columns |-> index,
     data    |-> rows]

EmptyFrame == [index |-> <<>>, columns |-> <<>>, data |-> <<>>]

ColumnPositions(df, name) ==
    {k \in 1..Len(df.columns) : df.columns[k] = name}

\* df[name] when exactly one column carries the name.
GetCol(df, name) ==
    Series(df.index, df.data[CHOOSE k \in ColumnPositions(df, name) : TRUE])

\* df[name] = values: overwrites the column of that name, or appends one.
SetCol(df, name, values) ==
    IF ColumnPositions(df, name) = {}
    THEN [df EXCEPT !.columns = Append(@, name), !.data = Append(@, values)]
    ELSE [df EXCEPT !.data =
             [k \in 1..Len(df.data) |->
                 IF df.columns[k] = name THEN values ELSE df.data[k]]]

\* ---------------------------------------------------------- python values

\* A Python value as the driver passes it for bar_labels or as a list item.
PyBool(b) == [type |-> "bool", b |-> b, s |-> "", n |-> 0, l |-> <<>>]

PyStr(s) == [type |-> "str", b |-> FALSE, s |-> s, n |-> 0, l |-> <<>>]

PyIntV(n) == [type |-> "int", b |-> FALSE, s |-> "", n |-> n, l |-> <<>>]

PyList(l) == [type |-> "list", b |-> FALSE, s |-> "", n |-> 0, l |-> l]

PyNone == [type |-> "NoneType", b |-> FALSE, s |-> "", n |-> 0, l |-> <<>>]

\* bool(x): the truth value Python's `if x:` tests.
Truthy(x) ==
    CASE x.type = "bool" -> x.b
      [] x.type = "str" -> x.s # ""
      [] x.type = "int" -> x.n # 0
      [] x.type = "list" -> Len(x.l) > 0
      [] OTHER -> FALSE

\* str(x) for a list item.
PyStrOf(x) ==
    CASE x.type = "str" -> x.s
      [] x.type = "int" -> IntStr(x.n)
      [] x.type = "bool" -> IF x.b THEN "True" ELSE "False"
      [] OTHER -> "None"

EmptyDict == [k \in {} |-> ""]

\* d.get(key, default)
DictGet(d, key, default) == IF key \in DOMAIN d THEN d[key] ELSE default

\* d[key] = value
DictSet(d, key, value) ==
    [k \in (DOMAIN d) \cup {key} |-> IF k = key THEN value ELSE d[k]]

\* ------------------------------------------------------------ the chart

\* WaterfallChart.__init__: the fields of the new object.
__init__(step_values, step_names, metric_name, last_step_label) ==
    [step_values     |-> step_values,
     step_names      |-> IF Len(step_names) > 0 THEN step_names
                         ELSE [x \in 1..Len(step_values) |-> "Step_" \o IntStr(x)],
     metric_col      |-> IF metric_name # "" THEN metric_name ELSE "Value",
     delta_col       |-> "delta",
     base_col        |-> "base",
     last_step_label |-> IF last_step_label # "" THEN last_step_label
                         ELSE "Final Value"]

LastValue(self) == self.step_values[Len(self.step_values)]

\* step_deltas of prep_plot: diff() with the first NaN filled from the values.
StepDeltas(self) ==
    FillnaSeries(Diff(SeriesOfList(self.step_values)),
                 SeriesOfList(self.step_values)).values

\* pd.DataFrame(rows, columns=columns, index=index).transpose().  The
\* constructor rejects column labels that do not match the width of the rows.
DataFrameT(rows, columns, index) ==
    IF Len(columns) # Len(rows[1])
    THEN [err |-> "ValueError", df |-> EmptyFrame]
    ELSE [err |-> "none", df |-> TransposedFrame(rows, columns, index)]

\* PlotFrame as it would be if the labels were zipped onto the rows instead
\* of being checked against them: the table is cut to the shorter of the two.
PlotFrameTruncating(self) ==
    [err |-> "none",
     df  |-> TransposedFrame(
                 << Slice(Cells(self.step_values \o <<LastValue(self)>>), 0,
                          IF Len(self.step_names) < Len(self.step_values)
                          THEN Len(self.step_names) + 1
                          ELSE Len(self.step_values) + 1),
                    Slice(StepDeltas(self) \o <<Num(LastValue(self))>>, 0,
                          IF Len(self.step_names) < Len(self.step_values)
                          THEN Len(self.step_names) + 1
                          ELSE Len(self.step_values) + 1) >>,
                 Slice(self.step_names \o <<self.last_step_label>>, 0,
                       IF Len(self.step_names) < Len(self.step_values)
                       THEN Len(self.step_names) + 1
                       ELSE Len(self.step_values) + 1),
                 <<self.metric_col, self.delta_col>>)]

\* The frame prep_plot builds before the base column is added.
PlotFrame(self) ==
    DataFrameT(<< Cells(self.step_values \o <<LastValue(self)>>),
                  StepDeltas(self) \o <<Num(LastValue(self))>> >>,
               self.step_names \o <<self.last_step_label>>,
               <<self.metric_col, self.delta_col>>)

\* df_plot[base_col] = df_plot[metric_col].shift(1).fillna(0)
ShiftedBase(self, df) ==
    SetCol(df, self.base_col,
           FillnaScalar(Shift(GetCol(df, self.metric_col), 1), 0).values)

\* df_plot[base_col] = list(df_plot[base_col].values[0:-1]) + [0]
ZeroLastBase(self, df) ==
    SetCol(df, self.base_col,
           Slice(GetCol(df, self.base_col).values, 0, Len(df.index) - 1)
           \o <<Num(0)>>)

\* The two assignments to df_plot[base_col] of prep_plot.  df[metric_col] is
\* a frame, not a Series, when metric_col names two columns, and a frame
\* cannot be assigned to the single column base_col.
AddBase(self, frame) ==
    IF frame.err # "none" THEN frame
    ELSE IF Cardinality(ColumnPositions(frame.df, self.metric_col)) > 1
    THEN [err |-> "ValueError", df |-> EmptyFrame]
    ELSE [err |-> "none", df |-> ZeroLastBase(self, ShiftedBase(self, frame.df))]

\* What a method call leaves: its outcome, its table and the object after it.
Outcome(r, self) == [err |-> r.err, df |-> r.df, self |-> self]

\* prep_plot as it would be if it appended the trailing value to
\* self.step_values in place instead of building a new list.
prep_plot_inplace(self) ==
    Outcome(AddBase(self, PlotFrame(self)),
            [self EXCEPT !.step_values = Append(@, LastValue(self))])

\* WaterfallChart.prep_plot.  The method assigns to no field of the object
\* and builds its lists with +, so the object after the call is the object
\* before it.
prep_plot(self) == Outcome(AddBase(self, PlotFrame(self)), self)

\* WaterfallChart.get_colors
get_colors(color_kwargs) ==
    [c_bar_pos    |-> DictGet(color_kwargs, "c_bar_pos", "seagreen"),
     c_bar_neg    |-> DictGet(color_kwargs, "c_bar_neg", "salmon"),
     c_bar_start  |-> DictGet(color_kwargs, "c_bar_start", "c"),
     c_bar_end    |-> DictGet(color_kwargs, "c_bar_end", "grey"),
     c_text_pos   |-> DictGet(color_kwargs, "c_text_pos", "darkgreen"),
     c_text_neg   |-> DictGet(color_kwargs, "c_text_neg", "maroon"),
     c_text_start |-> DictGet(color_kwargs, "c_text_start", "black"),
     c_text_end   |-> DictGet(color_kwargs, "c_text_end", "black")]

\* df_plot[delta_col][1:-1].values
MidValues(delta) == Slice(delta, 1, Len(delta) - 1)

\* IsNegative as it would be with x <= 0: a zero delta counted as a fall.
IsNonPositive(x) == ~x.nan /\ x.v <= 0

\* x < 0 for a float64 cell: false for NaN.
IsNegative(x) == ~x.nan /\ x.v < 0

\* The two list expressions of create_color_list.
ColorLists(c, mid_values) ==
    [barcolors |->
        <<c.c_bar_start>>
        \o [k \in 1..Len(mid_values) |->
               IF IsNegative(mid_values[k]) THEN c.c_bar_neg ELSE c.c_bar_pos]
        \o <<c.c_bar_end>>,
     txtcolors |->
        <<c.c_text_start>>
        \o [k \in 1..Len(mid_values) |->
               IF IsNegative(mid_values[k]) THEN c.c_text_neg ELSE c.c_text_pos]
        \o <<c.c_text_end>>]

\* WaterfallChart.create_color_list
create_color_list(self, df_plot, color_kwargs) ==
    ColorLists(get_colors(color_kwargs),
               MidValues(GetCol(df_plot, self.delta_col).values))

\* WaterfallChart.check_label_type
check_label_type(bar_labels) ==
    IF bar_labels.type = "list" THEN "list"
    ELSE IF bar_labels.type = "bool" THEN "value"
    ELSE IF bar_labels.type = "str" THEN "str"
    ELSE "ValueError"

\* ------------------------------------------------------------ rendering

\* The drawable surface: how the call came by it and what was drawn on it.
NoAxes == [kind |-> "none", figsize |-> <<0, 0>>, ops |-> <<>>]

\* An Axes the caller made and passes in.
SuppliedAxes == [kind |-> "supplied", figsize |-> <<0, 0>>, ops |-> <<>>]

\* plt.subplots(figsize=figsize)
Subplots(figsize) == [kind |-> "created", figsize |-> figsize, ops |-> <<>>]

Draw(ax, op) == [ax EXCEPT !.ops = Append(@, op)]

\* bar_kwargs['width'] = bar_kwargs.get('width', 0.6), on the bag handed in.
\* kw maps every option bag alive during the call to its contents.
SetWidth(kw, bar_ref) ==
    [kw EXCEPT ![bar_ref] = DictSet(@, "width", DictGet(@, "width", "0.6"))]

\* ax.bar(x=..., height=..., bottom=..., color=barcolors, **bar_kwargs)
BarOp(self, df_plot, barcolors, bar_kwargs) ==
    [op     |-> "bar",
     x      |-> df_plot.index,
     height |-> GetCol(df_plot, self.delta_col).values,
     bottom |-> GetCol(df_plot, self.base_col).values,
     color  |-> barcolors,
     kwargs |-> bar_kwargs]

\* WaterfallChart.plot_bars: the surface and the option bags after the call.
plot_bars(self, ax, df_plot, kw, color_ref, bar_ref) ==
    [ax |-> Draw(ax, BarOp(self, df_plot,
                           create_color_list(self, df_plot,
                                             kw[color_ref]).barcolors,
                           SetWidth(kw, bar_ref)[bar_ref])),
     kw |-> SetWidth(kw, bar_ref)]

\* Gapped as it would be with the slice [0:-1:3]: the gaps one slot early.
GappedFromZero(link_lines) ==
    SetSlice(link_lines, 0, Len(link_lines.values) - 1, 3, NaN)

\* link_lines[1:-1:3] = np.nan
Gapped(link_lines) ==
    SetSlice(link_lines, 1, Len(link_lines.values) - 1, 3, NaN)

\* link_lines = link_lines[1:-1]
Trimmed(link_lines) == SeriesSlice(link_lines, 1, Len(link_lines.values) - 1)

\* The connector series of plot_link_lines.
LinkLines(self, df_plot) ==
    Trimmed(Gapped(Shift(Repeat(GetCol(df_plot, self.metric_col), 3), 2)))

\* The two default kwargs of plot_link_lines, on the bag handed in.
SetLineDefaults(kw, line_ref) ==
    [kw EXCEPT ![line_ref] =
        DictSet(DictSet(@, "color", DictGet(@, "color", "grey")),
                "linestyle", DictGet(@, "linestyle", "--"))]

\* ax.plot(link_lines, **line_kwargs): the index gives x, the values y.
PlotOp(link_lines, line_kwargs) ==
    [op     |-> "plot",
     x      |-> link_lines.index,
     y      |-> link_lines.values,
     kwargs |-> line_kwargs]

\* WaterfallChart.plot_link_lines
plot_link_lines(self, ax, df_plot, kw, line_ref) ==
    [ax |-> Draw(ax, PlotOp(LinkLines(self, df_plot),
                            SetLineDefaults(kw, line_ref)[line_ref])),
     kw |-> SetLineDefaults(kw, line_ref)]

\* BarLabel as it would be with '{}' for '{:,}': no thousands separator.
BarLabelPlain(self, df_plot, bar_labels, label_type, i) ==
    IF label_type = "list" THEN PyStrOf(bar_labels.l[i])
    ELSE IF label_type = "value"
    THEN IntStr(PyInt(GetCol(df_plot, self.delta_col).values[i].v))
    ELSE bar_labels.s

\* The label of bar i (1-based here, i - 1 in the code) in add_labels.
BarLabel(self, df_plot, bar_labels, label_type, i) ==
    IF label_type = "list" THEN PyStrOf(bar_labels.l[i])
    ELSE IF label_type = "value"
    THEN FormatThousands(PyInt(GetCol(df_plot, self.delta_col).values[i].v))
    ELSE bar_labels.s

\* ax.text(i, v*1.02, label, color=txtcolors[i], ...) for bar i.
TextOp(self, df_plot, bar_labels, txtcolors, label_type, i) ==
    [op    |-> "text",
     x     |-> i - 1,
     y     |-> [num |-> GetCol(df_plot, self.metric_col).values[i].v * 102,
                den |-> Denom * 100],
     s     |-> BarLabel(self, df_plot, bar_labels, label_type, i),
     color |-> txtcolors[i],
     horizontalalignment |-> "center",
     verticalalignment   |-> "baseline"]

\* How many rows the loop of add_labels labels before it ends: all of them,
\* or as many as a list of labels has items.
LabelsWritten(bar_labels, label_type, rows) ==
    IF label_type = "list" /\ Len(bar_labels.l) < rows
    THEN Len(bar_labels.l) ELSE rows

\* The loop of add_labels: one text per row, IndexError at the first row a
\* list of labels has no item for.
LabelLoop(self, ax, df_plot, bar_labels, txtcolors, label_type, done) ==
    [err |-> IF done < Len(df_plot.index) THEN "IndexError" ELSE "none",
     ax  |-> [ax EXCEPT !.ops = @ \o
                 [i \in 1..done |->
                     TextOp(self, df_plot, bar_labels, txtcolors,
                            label_type, i)]]]

\* add_labels once the text colors and the label type are known.
LabelAs(self, ax, df_plot, bar_labels, txtcolors, label_type) ==
    IF label_type = "ValueError"
    THEN [err |-> "ValueError", ax |-> ax]
    ELSE LabelLoop(self, ax, df_plot, bar_labels, txtcolors, label_type,
                   LabelsWritten(bar_labels, label_type, Len(df_plot.index)))

\* WaterfallChart.add_labels
add_labels(self, ax, df_plot, bar_labels, kw, color_ref) ==
    LabelAs(self, ax, df_plot, bar_labels,
            create_color_list(self, df_plot, kw[color_ref]).txtcolors,
            check_label_type(bar_labels))

\* Series.max() of a column without NaN.
ColMax(values) ==
    CHOOSE m \in {values[i].v : i \in 1..Len(values)} :
        \A i \in 1..Len(values) : values[i].v <= m

\* The four formatting calls that end plot_waterfall.
FormatAxes(self, ax, df_plot, title) ==
    Draw(Draw(Draw(Draw(ax,
        [op |-> "set_xlim",
         lo |-> [num |-> -1, den |-> 2],
         hi |-> [num |-> 2 * Len(df_plot.index) - 1, den |-> 2]]),
        [op |-> "set_ylim",
         lo |-> [num |-> 0, den |-> 1],
         hi |-> [num |-> ColMax(GetCol(df_plot, self.metric_col).values) * 11,
                 den |-> Denom * 10]]),
        [op |-> "set_ylabel", s |-> self.metric_col]),
        [op |-> "set_title", s |-> title, fontsize |-> 16])

\* plot_waterfall from `if bar_labels:` on: lab is what add_labels left, or
\* the surface as it was when the labels are skipped.
Formatted(a, p, kw, lab) ==
    IF lab.err # "none"
    THEN [err |-> lab.err, ax |-> lab.ax, kw |-> kw, self |-> p.self]
    ELSE [err |-> "none", ax |-> FormatAxes(p.self, lab.ax, p.df, a.title),
          kw |-> kw, self |-> p.self]

\* plot_waterfall after plot_link_lines returned l.
Labelled(a, p, l) ==
    Formatted(a, p, l.kw,
              IF Truthy(a.bar_labels)
              THEN add_labels(p.self, l.ax, p.df, a.bar_labels, l.kw,
                              a.color_ref)
              ELSE [err |-> "none", ax |-> l.ax])

\* plot_waterfall after plot_bars returned b.
Linked(a, p, b) ==
    Labelled(a, p, plot_link_lines(p.self, b.ax, p.df, b.kw, a.line_ref))

\* plot_waterfall after prep_plot returned p: nothing is drawn and no
\* surface is made when prep_plot raised.
Plotted(a, kw, p) ==
    IF p.err # "none"
    THEN [err |-> p.err, ax |-> a.ax, kw |-> kw, self |-> p.self]
    ELSE Linked(a, p,
                plot_bars(p.self,
                          IF a.ax.kind = "none" THEN Subplots(a.figsize)
                          ELSE a.ax,
                          p.df, kw, a.color_ref, a.bar_ref))

\* WaterfallChart.plot_waterfall: the outcome, the surface, the option bags
\* and the object after the call.  a holds the arguments: a.ax is the
\* surface passed (NoAxes for None), a.color_ref, a.bar_ref and a.line_ref
\* name the bags passed (the def's own default bag when omitted).
plot_waterfall(self, kw, a) == Plotted(a, kw, prep_plot(self))

\* --------------------------------------------------------------- driver

VARIABLES
    self,     \* the chart object's fields
    ctor,     \* the arguments the chart object was constructed with
    kw,       \* the option bags: the defaults of plot_waterfall's def, which
              \* every call on every chart shares, and the bags the caller
              \* made for the last call
    kwEntry,  \* the option bags as they were when the last call began
    args,     \* the last call and its arguments
    ret       \* what the last call raised or returned

vars == <<self, ctor, kw, kwEntry, args, ret>>

Prefix(pool, k) == [i \in 1..k |-> pool[i]]

StepValueLists == UNION {[1..n -> StepValueSet] : n \in 1..MaxLen}

StepNameLists == {Prefix(NamePool, k) : k \in 0..(MaxLen + 1)}

LabelPool ==
    <<PyStr("a"), PyIntV(7), PyStr("c"), PyStr("d"), PyStr("e"), PyStr("f")>>

BarLabelModes ==
    {PyBool(TRUE), PyBool(FALSE), PyStr(""), PyStr("n/a"), PyNone, PyIntV(5)}
    \cup {PyList(Prefix(LabelPool, k)) : k \in 0..(MaxLen + 2)}

\* An omitted bag, or the dict the caller passes.
Omitted == [given |-> FALSE, d |-> EmptyDict]

Given(d) == [given |-> TRUE, d |-> d]

CustomColors ==
    [k \in {"c_bar_neg", "c_text_start"} |->
        IF k = "c_bar_neg" THEN "red" ELSE "blue"]

ColorDicts == {EmptyDict, CustomColors}

\* The keyword arguments of one plot_waterfall call: all left out (a new
\* surface, the def's default bags), or all passed.
KwArgs ==
    {[ax |-> NoAxes, figsize |-> <<10, 5>>, title |-> "",
      color |-> Omitted, bar |-> Omitted, line |-> Omitted],
     [ax |-> SuppliedAxes, figsize |-> <<10, 5>>, title |-> "Bridge",
      color |-> Given(CustomColors),
      bar   |-> Given([k \in {"width"} |-> "0.8"]),
      line  |-> Given([k \in {"color"} |-> "black"])]}

DefaultSlots == {"default_color", "default_bar", "default_line"}

UserSlots == {"user_color", "user_bar", "user_line"}

NoColors == [barcolors |-> <<>>, txtcolors |-> <<>>]

NoArgs ==
    [op |-> "none", df_plot |-> EmptyFrame, ax |-> NoAxes,
     figsize |-> <<0, 0>>, title |-> "", bar_labels |-> PyNone,
     color_ref |-> "", bar_ref |-> "", line_ref |-> ""]

NoRet ==
    [op |-> "none", err |-> "none", df |-> EmptyFrame, colors |-> NoColors,
     ax |-> NoAxes]

\* The option bags when a call begins: the caller's bags hold what the
\* caller put in them, the defaults of the def hold what earlier calls left.
Entry(color, bar, line) ==
    [s \in DefaultSlots \cup UserSlots |->
        CASE s = "user_color" -> color.d
          [] s = "user_bar" -> bar.d
          [] s = "user_line" -> line.d
          [] OTHER -> kw[s]]

Ref(arg, kind) == IF arg.given THEN "user_" \o kind ELSE "default_" \o kind

Init ==
    \E sv \in StepValueLists, sn \in StepNameLists,
       mn \in MetricNames, lsl \in LastStepLabels :
        /\ self = __init__(sv, sn, mn, lsl)
        /\ ctor = [step_values |-> sv, step_names |-> sn,
                   metric_name |-> mn, last_step_label |-> lsl]
        /\ kw = [s \in DefaultSlots \cup UserSlots |-> EmptyDict]
        /\ kwEntry = kw
        /\ args = NoArgs
        /\ ret = NoRet

\* The driver keeps what a call raised or returned.
Return(entry, a, r) ==
    /\ kwEntry' = entry
    /\ kw' = r.kw
    /\ self' = r.self
    /\ args' = a
    /\ ret' = [NoRet EXCEPT !.op = a.op, !.err = r.err, !.df = r.df,
                            !.colors = r.colors, !.ax = r.ax]

PrepPlotReturn(r) ==
    [err |-> r.err, df |-> r.df, colors |-> NoColors, ax |-> NoAxes,
     kw |-> Entry(Omitted, Omitted, Omitted), self |-> r.self]

\* chart.prep_plot()
PrepPlot ==
    /\ Return(Entry(Omitted, Omitted, Omitted),
              [NoArgs EXCEPT !.op = "prep_plot"],
              PrepPlotReturn(prep_plot(self)))
    /\ UNCHANGED ctor

\* chart.create_color_list(df_plot, color_kwargs) on the table the driver
\* got from prep_plot.
CreateColorList ==
    \E d \in ColorDicts :
        /\ ret.op = "prep_plot"
        /\ ret.err = "none"
        /\ Return(Entry(Given(d), Omitted, Omitted),
                  [NoArgs EXCEPT !.op = "create_color_list",
                                 !.df_plot = ret.df,
                                 !.color_ref = "user_color"],
                  [err |-> "none", df |-> EmptyFrame,
                   colors |-> create_color_list(self, ret.df, d),
                   ax |-> NoAxes,
                   kw |-> Entry(Given(d), Omitted, Omitted), self |-> self])
        /\ UNCHANGED ctor

PlotArgs(k, bar_labels) ==
    [NoArgs EXCEPT !.op = "plot_waterfall",
                   !.ax = k.ax, !.figsize = k.figsize, !.title = k.title,
                   !.bar_labels = bar_labels,
                   !.color_ref = Ref(k.color, "color"),
                   !.bar_ref = Ref(k.bar, "bar"),
                   !.line_ref = Ref(k.line, "line")]

PlotWaterfallReturn(r) ==
    [err |-> r.err, df |-> EmptyFrame, colors |-> NoColors, ax |-> r.ax,
     kw |-> r.kw, self |-> r.self]

\* chart.plot_waterfall(ax, figsize, title, bar_labels, color_kwargs,
\*                      bar_kwargs, line_kwargs)
PlotWaterfall ==
    \E k \in KwArgs, bar_labels \in BarLabelModes :
        /\ Return(Entry(k.color, k.bar, k.line),
                  PlotArgs(k, bar_labels),
                  PlotWaterfallReturn(
                      plot_waterfall(self, Entry(k.color, k.bar, k.line),
                                     PlotArgs(k, bar_labels))))
        /\ UNCHANGED ctor

Next ==
    \/ PrepPlot
    \/ CreateColorList
    \/ PlotWaterfall

Spec == Init /\ [][Next]_vars

\* --------------------------------------------------------------- claims

\* The table a call of prep_plot returned, by column.
Rows == Len(ctor.step_values) + 1

Value(df) == GetCol(df, self.metric_col).values

Delta(df) == GetCol(df, self.delta_col).values

Base(df) == GetCol(df, self.base_col).values

\* step_names was left out or has one name per step value.
NamesFit ==
    ctor.step_names = <<>> \/ Len(ctor.step_names) = Len(ctor.step_values)

\* metric_name is one of the two column names prep_plot uses for itself.
MetricCollides == ctor.metric_name \in {"delta", "base"}

PrepPlotReturned == ret.op = "prep_plot"

PrepPlotTable == ret.op = "prep_plot" /\ ret.err = "none"

\* C1: for every non-empty step_values of length n (with step names left
\* out or one per value), prep_plot returns a table of exactly n + 1 rows
\* in input order whose last row has value = step_values[-1],
\* delta = step_values[-1] and base = 0.
C1_TrailingRow ==
    (PrepPlotReturned /\ NamesFit) =>
        /\ ret.err = "none"
        /\ Len(ret.df.index) = Rows
        /\ Len(Value(ret.df)) = Rows
        /\ \A i \in 1..(Rows - 1) :
              /\ ret.df.index[i] = self.step_names[i]
              /\ Value(ret.df)[i] = Num(ctor.step_values[i])
        /\ Value(ret.df)[Rows] = Num(ctor.step_values[Rows - 1])
        /\ Delta(ret.df)[Rows] = Num(ctor.step_values[Rows - 1])
        /\ Base(ret.df)[Rows] = Num(0)

\* C1 where the code keeps it: the same statement for every metric_name
\* other than "delta" and "base".
C1_TrailingRowUnlessCollision == MetricCollides \/ C1_TrailingRow

\* C2: in the table prep_plot returns, base[0] = 0 and
\* delta[0] = step_values[0]; for every later non-trailing row i,
\* base[i] = step_values[i-1] and delta[i] = step_values[i] -
\* step_values[i-1]; and base[i] + delta[i] = value[i] for every row but the
\* trailing one.
C2_BaseAndDelta ==
    PrepPlotTable =>
        /\ Base(ret.df)[1] = Num(0)
        /\ Delta(ret.df)[1] = Num(ctor.step_values[1])
        /\ \A i \in 2..(Rows - 1) :
              /\ Base(ret.df)[i] = Num(ctor.step_values[i - 1])
              /\ Delta(ret.df)[i] =
                    Num(ctor.step_values[i] - ctor.step_values[i - 1])
        /\ \A i \in 1..(Rows - 1) :
              Base(ret.df)[i].v + Delta(ret.df)[i].v = Value(ret.df)[i].v

\* C2 where the code keeps it: the same statement for every metric_name
\* other than "delta" and "base".
C2_BaseAndDeltaUnlessCollision == MetricCollides \/ C2_BaseAndDelta

\* The colors a role resolves to under the bag create_color_list was given.
Palette == get_colors(kwEntry["user_color"])

ColorListReturned == ret.op = "create_color_list"

\* C3: create_color_list returns a bar-color list and a text-color list
\* with one entry per table row: row 0 gets the start colors whatever the
\* sign of its delta, the last row the end colors, every interior row the
\* positive colors if its delta >= 0 and the negative colors otherwise; a
\* single-element input gives exactly [start, end].
C3_ColorRoles ==
    ColorListReturned =>
        /\ Len(ret.colors.barcolors) = Rows
        /\ Len(ret.colors.txtcolors) = Rows
        /\ Len(args.df_plot.index) = Rows
        /\ ret.colors.barcolors[1] = Palette.c_bar_start
        /\ ret.colors.txtcolors[1] = Palette.c_text_start
        /\ ret.colors.barcolors[Rows] = Palette.c_bar_end
        /\ ret.colors.txtcolors[Rows] = Palette.c_text_end
        /\ \A i \in 2..(Rows - 1) :
              IF Delta(args.df_plot)[i].v >= 0
              THEN /\ ret.colors.barcolors[i] = Palette.c_bar_pos
                   /\ ret.colors.txtcolors[i] = Palette.c_text_pos
              ELSE /\ ret.colors.barcolors[i] = Palette.c_bar_neg
                   /\ ret.colors.txtcolors[i] = Palette.c_text_neg
        /\ (Len(ctor.step_values) = 1 =>
              /\ ret.colors.barcolors = <<Palette.c_bar_start, Palette.c_bar_end>>
              /\ ret.colors.txtcolors = <<Palette.c_text_start, Palette.c_text_end>>)

\* A table whose first delta is negative and whose interior delta is zero
\* has been colored with a palette that overrides the negative bar color.
C3_Witness ==
    /\ ColorListReturned
    /\ Rows = 3
    /\ Delta(args.df_plot)[1].v < 0
    /\ Delta(args.df_plot)[2].v = 0
    /\ Palette.c_bar_neg = "red"

\* A table with a negative interior delta has been colored.
C3_WitnessNegative ==
    /\ ColorListReturned
    /\ Rows = 3
    /\ Delta(args.df_plot)[2].v < 0
    /\ ret.colors.barcolors[2] = "salmon"
    /\ ret.colors.txtcolors[2] = "maroon"

PlotWaterfallReturned == ret.op = "plot_waterfall"

IsDrawing(o) == o.op \in {"bar", "plot", "text"}

IsText(o) == o.op = "text"

\* The labels the last render call wrote, in the order it wrote them.
Texts == SelectSeq(ret.ax.ops, IsText)

LabelModeValid == args.bar_labels.type \in {"bool", "str", "list"}

\* C4: a plot_waterfall call whose label mode is not a boolean, a string or
\* a list fails with an error, and has drawn no bar, connector line or text
\* on the surface before the error is raised.
C4_InvalidModeNoDraw ==
    (PlotWaterfallReturned /\ ~LabelModeValid) =>
        /\ ret.err # "none"
        /\ SelectSeq(ret.ax.ops, IsDrawing) = <<>>

\* C5: a plot_waterfall call whose label mode is a list with more or fewer
\* items than the table has rows fails with an error and has written no
\* label on the surface.
C5_ListLengthMismatch ==
    (/\ PlotWaterfallReturned
     /\ args.bar_labels.type = "list"
     /\ Len(args.bar_labels.l) # Rows) =>
        /\ ret.err # "none"
        /\ Texts = <<>>

\* C6: after plot_waterfall returns, the color, bar-style and line-style
\* option bags it was given (or the default bags used when they are
\* omitted) and the chart object's fields are what they were when it was
\* called.
C6_NoStateOutlivesRender ==
    PlotWaterfallReturned =>
        /\ kw = kwEntry
        /\ self = __init__(ctor.step_values, ctor.step_names,
                         ctor.metric_name, ctor.last_step_label)

\* C6 for the state the code does leave alone: the color bag and the chart
\* object's fields.
C6_ColorsAndFieldsKept ==
    PlotWaterfallReturned =>
        /\ kw["default_color"] = kwEntry["default_color"]
        /\ kw["user_color"] = kwEntry["user_color"]
        /\ self = __init__(ctor.step_values, ctor.step_names,
                         ctor.metric_name, ctor.last_step_label)

\* The table of the chart the last render call drew.
Drawn == prep_plot(self).df

\* The render call got as far as the labels.
Rendered == PlotWaterfallReturned /\ ret.ax.ops # <<>>

\* C7: the text add_labels draws for bar i is, for label mode True, the
\* thousands-separated decimal rendering of int(delta[i]) (-30 gives "-30",
\* -3000 gives "-3,000"); for a string, that string on every bar; for a
\* list, str(list[i]); and label mode False draws no label at all.
C7_LabelText ==
    /\ FormatThousands(-30) = "-30"
    /\ FormatThousands(-3000) = "-3,000"
    /\ Rendered =>
        /\ \A i \in 1..Len(Texts) :
              /\ Texts[i].x = i - 1
              /\ args.bar_labels.type = "bool" =>
                    /\ args.bar_labels.b
                    /\ Texts[i].s = FormatThousands(
                          IF Delta(Drawn)[i].v >= 0
                          THEN Delta(Drawn)[i].v \div Denom
                          ELSE -((-Delta(Drawn)[i].v) \div Denom))
              /\ args.bar_labels.type = "str" =>
                    Texts[i].s = args.bar_labels.s
              /\ args.bar_labels.type = "list" =>
                    Texts[i].s = PyStrOf(args.bar_labels.l[i])
        /\ (args.bar_labels.type = "bool" /\ args.bar_labels.b) =>
              Len(Texts) = Rows
        /\ (args.bar_labels.type = "str" /\ args.bar_labels.s # "") =>
              Len(Texts) = Rows
        /\ (args.bar_labels.type = "bool" /\ ~args.bar_labels.b) =>
              Texts = <<>>

\* Label mode True has labelled a falling step of more than a thousand, whose
\* delta int() truncates: -6302 / 2 = -3151.
C7_Witness ==
    /\ Rendered
    /\ args.bar_labels = PyBool(TRUE)
    /\ Len(Texts) = 3
    /\ Delta(Drawn)[2].v < -1000 * Denom
    /\ Delta(Drawn)[1].v % Denom # 0

\* A list of labels holding a number has labelled every bar.
C7_WitnessList ==
    /\ Rendered
    /\ args.bar_labels.type = "list"
    /\ Len(Texts) = Rows
    /\ Texts[2].s = "7"

\* C8: if step_names is non-empty and its length differs from the length of
\* step_values, the transform fails with a ValueError instead of producing
\* a table.
C8_NameCountMismatch ==
    (PrepPlotReturned /\ ~NamesFit) =>
        /\ ret.err = "ValueError"
        /\ ret.df = EmptyFrame

\* prep_plot has been called on a chart with more names than values, and on
\* one with fewer.
C8_Witness ==
    /\ PrepPlotReturned
    /\ Len(ctor.step_names) > Len(ctor.step_values)

C8_WitnessFewer ==
    /\ PrepPlotReturned
    /\ ctor.step_names # <<>>
    /\ Len(ctor.step_names) < Len(ctor.step_values)

\* C9: after any sequence of prep_plot and plot_waterfall calls on a chart
\* object its fields are what construction made them, and every call of
\* prep_plot returns the table the first call on the new object returns.
C9_TransformIsPure ==
    /\ self = __init__(ctor.step_values, ctor.step_names,
                     ctor.metric_name, ctor.last_step_label)
    /\ PrepPlotReturned =>
          LET first == prep_plot(__init__(ctor.step_values, ctor.step_names,
                                        ctor.metric_name,
                                        ctor.last_step_label))
          IN  /\ ret.err = first.err
              /\ ret.df = first.df

\* prep_plot has returned a table after an earlier render call (which left
\* its mark on the default bar bag).
C9_Witness ==
    /\ PrepPlotTable
    /\ kw["default_bar"] # EmptyDict
    /\ Rows = 3

\* The connector series of the last render call.
Connector == ret.ax.ops[2]

\* C10: for a table of m rows the connector series holds exactly m - 1
\* segments, one per adjacent pair of rows: segment i runs from the
\* x-position of row i to that of row i + 1 at height value[i], a NaN gap
\* separates it from the next, and no segment lies before the first bar or
\* after the last.
C10_ConnectorSegments ==
    Rendered =>
        /\ Connector.op = "plot"
        /\ Len(Connector.y) = 3 * (Rows - 1) + 1
        /\ Len(Connector.x) = Len(Connector.y)
        /\ \A j \in 1..Len(Connector.y) :
              Connector.y[j].nan <=> (j % 3 = 1)
        /\ \A i \in 1..(Rows - 1) :
              /\ Connector.y[3 * i - 1] = Value(Drawn)[i]
              /\ Connector.y[3 * i] = Value(Drawn)[i]
              /\ Connector.x[3 * i - 1] = Drawn.index[i]
              /\ Connector.x[3 * i] = Drawn.index[i + 1]

\* A table of three rows with two different levels has been connected.
C10_Witness ==
    /\ Rendered
    /\ Rows = 3
    /\ Value(Drawn)[1] # Value(Drawn)[2]
    /\ ~MetricCollides

====
